---------------------------- MODULE Spec2Model ----------------------------
(***************************************************************************)
(* A model of plug-ins/threeJsFileTranslator.py: the ThreeJsWriter that    *)
(* walks a Maya scene and writes it as a JSON document.                    *)
(*                                                                         *)
(* The host (Maya) is modelled by the variable scene, the answers of the   *)
(* host's query API (ls, listConnections, getPoints, keyframe, ...), by    *)
(* curTime, the host's playback position, and by disk, the file at the     *)
(* path handed to write.  The writer is modelled by the attributes it      *)
(* keeps on self and by pc, the position of a write call in its code.      *)
(* Floating point values are integers in units of 10^-9, so that           *)
(* round(x, 8) is a rounding to the nearest multiple of 10.                *)
(***************************************************************************)
EXTENDS Integers, Sequences, FiniteSets, TLC

VARIABLES
    scene,            \* the host's scene, as its query API reports it
    curTime,          \* the host's playback position (currentTime)
    disk,             \* the file at the path given to write
    optionString,     \* the optionString argument of the call in progress
    options,          \* self.options
    meshes,           \* self.meshes
    materials,        \* self.materials
    bones,            \* self.bones
    animations,       \* self.animations
    materialIndices,  \* self._materialIndices, with whether the attribute exists
    jointNames,       \* self._jointNames, with whether the attribute exists
    pc,               \* where the call is: idle, materials, bones, meshes,
                      \* faces, skins, writing, done, error
    meshIdx,          \* the position of _exportMeshes in _meshesWithSkins()
    faceIdx,          \* the position of _exportFaces in mesh.faces
    vtxIdx,           \* the position of _exportSkins in skin.getWeights(mesh.vtx)
    output,           \* the dict of the mesh being exported
    error,            \* the exception that ended the call, if one did
    calls,            \* how many write calls this writer has seen
    frameLog,         \* history: the frames passed to _goToFrame in this call
    faceLog,          \* history: what _exportFaces appended for each face
    diskBefore        \* history: the file as it was when the call began

vars == <<scene, curTime, disk, optionString, options, meshes, materials,
          bones, animations, materialIndices, jointNames, pc,
          meshIdx, faceIdx, vtxIdx, output, error, calls, frameLog, faceLog,
          diskBefore>>

----------------------------------------------------------------------------
(* Bounds of the model. *)

MaxMeshes == 2       \* meshes in a scene
MaxFaces == 2        \* faces of a mesh
MaxInfluences == 2   \* influence objects of a skin cluster
MaxWeight == 2       \* a skin weight is one of 0..MaxWeight
MaxJoints == 3       \* joints in a scene
MaxKeys == 2         \* keyframes of a joint
MaxFrame == 3        \* frames are 0..MaxFrame
MaxCalls == 2        \* write calls on one writer

FLOAT_PRECISION == 8

----------------------------------------------------------------------------
(* Sequences. *)

Range(s) == {s[i] : i \in DOMAIN s}

BoundedSeq(S, n) == UNION {[1..k -> S] : k \in 0..n}

RECURSIVE Flatten(_)
Flatten(ss) ==
    IF ss = <<>> THEN <<>> ELSE Head(ss) \o Flatten(Tail(ss))

RECURSIVE SumSeq(_)
SumSeq(s) == IF s = <<>> THEN 0 ELSE Head(s) + SumSeq(Tail(s))

Min(S) == CHOOSE x \in S : \A y \in S : x <= y

(* Python's sorted(list(set(xs))) of numbers. *)
RECURSIVE SortedSet(_)
SortedSet(S) ==
    IF S = {} THEN <<>> ELSE <<Min(S)>> \o SortedSet(S \ {Min(S)})

(* Python's dict([(k, i) for i, k in enumerate(names)]): a later pair *)
(* replaces an earlier one with the same key; enumerate counts from 0. *)
DictOfEnumerate(names) ==
    [n \in Range(names) |->
        (CHOOSE i \in DOMAIN names :
            /\ names[i] = n
            /\ \A j \in DOMAIN names : names[j] = n => j <= i) - 1]

(* Python 2's round(x, 8) of a value held in units of 10^-9: to the *)
(* nearest multiple of 10, a half away from zero. *)
Round(x) ==
    LET step == 10 ^ (9 - FLOAT_PRECISION)
        half == step \div 2
    IN  IF x >= 0 THEN ((x + half) \div step) * step
        ELSE -(((-x + half) \div step) * step)

----------------------------------------------------------------------------
(* The option string.  It is a list of tokens separated by single spaces; *)
(* the model holds it as the sequence of its tokens.  No component key is *)
(* a substring of another, so "key in optionsString" is "some token is    *)
(* the key" for the tokens used here.                                      *)

componentKeys ==
    <<"vertices", "normals", "colors", "uvs", "faces",
      "materials", "diffuseMaps", "specularMaps", "glossMaps", "bumpMaps",
      "incandescenceMasks", "copyTextures",
      "bones", "skeletalAnim", "bakeAnimations", "prettyOutput">>

(* The integers a token of the model can spell. *)
TokenInts == -1..10

(* Python's int(token): the number the token spells, or a ValueError. *)
IsInt(token) == \E n \in TokenInts : ToString(n) = token

int(token) == CHOOSE n \in TokenInts : ToString(n) = token

(* optionsString[optionsString.find(key):].split(' '): the tokens from the *)
(* first occurrence of key on. *)
OptionsFrom(tokens, key) ==
    LET first == Min({i \in DOMAIN tokens : tokens[i] = key})
    IN  SubSeq(tokens, first, Len(tokens))

NoError == [raised |-> FALSE]

IndexError == [raised |-> TRUE, type |-> "IndexError"]

ValueError == [raised |-> TRUE, type |-> "ValueError"]

(* int(args[1]), ..., int(args[n]) in turn, args[0] being the key: the *)
(* values converted before the first failure, and that failure. *)
RECURSIVE IntArgs(_, _, _)
IntArgs(args, i, n) ==
    IF i > n THEN [values |-> <<>>, error |-> NoError]
    ELSE IF Len(args) < i + 1 THEN [values |-> <<>>, error |-> IndexError]
    ELSE IF ~IsInt(args[i + 1]) THEN [values |-> <<>>, error |-> ValueError]
    ELSE LET rest == IntArgs(args, i + 1, n)
         IN  [values |-> <<int(args[i + 1])>> \o rest.values,
              error |-> rest.error]

(* self._parseOptions: self.options as the call leaves it, and the error *)
(* it raised, if any. *)
_parseOptions(tokens) ==
    LET flags == [key \in Range(componentKeys) |-> key \in Range(tokens)]
        bone == IF flags["bones"]
                THEN IntArgs(OptionsFrom(tokens, "bones"), 1, 1)
                ELSE [values |-> <<>>, error |-> NoError]
        withBones == IF Len(bone.values) = 1
                     THEN flags @@ [influencesPerVertex |-> bone.values[1]]
                     ELSE flags
        bake == IF flags["bakeAnimations"] /\ ~bone.error.raised
                THEN IntArgs(OptionsFrom(tokens, "bakeAnimations"), 1, 3)
                ELSE [values |-> <<>>, error |-> NoError]
        names == <<"startFrame", "endFrame", "stepFrame">>
        withBake == withBones @@
                    [k \in {names[i] : i \in 1..Len(bake.values)} |->
                        bake.values[CHOOSE i \in 1..3 : names[i] = k]]
    IN  [options |-> withBake,
         error |-> IF bone.error.raised THEN bone.error ELSE bake.error]

----------------------------------------------------------------------------
(* The host's scene: what the queries of pymel answer.                    *)
(*   lambert       ls(type='lambert'): the names of the materials          *)
(*   joints        ls(type='joint'): name, parent (getParent().name(), or  *)
(*                 None), keys (keyframe(joint, query=True)), pos and rot  *)
(*   meshes        ls(type='mesh'): name, connections                      *)
(*                 (len(listConnections())), points, faces, normals,       *)
(*                 binormals, tangents, us and vs                          *)
(*   skinClusters  ls(type='skinCluster'): outputGeometry (mesh names),    *)
(*                 influenceObjects (joint names), weights (per mesh, a    *)
(*                 row of weights for each vertex)                         *)
(*   minTime, maxTime, timeUnit   playbackOptions and currentUnit          *)
(* A face holds its vertices (getVertices()), hasUVs, uvIndices            *)
(* (getUVIndex(i)), normalIndices (normalIndex(i)) and shaders: the names  *)
(* of the lambert materials of the shading engines it is a member of, in   *)
(* the order the two loops of _getMaterialIndex meet them.                 *)

None == "None"

Face(n, uv, shaders) ==
    [vertices |-> [i \in 1..n |-> i - 1],
     hasUVs |-> uv,
     uvIndices |-> [i \in 1..n |-> 10 + i],
     normalIndices |-> [i \in 1..n |-> 20 + i],
     shaders |-> shaders]

PolygonVertexCounts == {3, 4, 5}

ShaderLists == {<<>>, <<"lambert1">>, <<"phong1">>}

FaceKinds ==
    {Face(n, uv, sh) : n \in PolygonVertexCounts, uv \in BOOLEAN,
                       sh \in ShaderLists}

BaseFace == Face(3, TRUE, <<"lambert1">>)

MeshName(k) == "mesh" \o ToString(k)

JointName(k) == "joint" \o ToString(k)

Max(S) == CHOOSE x \in S : \A y \in S : x >= y

NumVertices(faces) == Max({3} \cup {Len(faces[j].vertices) : j \in DOMAIN faces})

Point(k, v) == <<(10 * k + v) * 10000000 + 4, -15, 25>>

Mesh(k, faces, connections) ==
    [name |-> MeshName(k),
     connections |-> connections,
     points |-> [v \in 1..NumVertices(faces) |-> Point(k, v)],
     faces |-> faces,
     normals |-> <<<<0, 0, 1000000004>>>>,
     binormals |-> <<<<0, 1000000005, 0>>>>,
     tangents |-> <<<<999999996, 0, 0>>>>,
     us |-> <<0, 500000000>>,
     vs |-> <<250000000, 1000000000>>]

(* The skin cluster of mesh k: its influences are the first ni joints, *)
(* last joint first. *)
Skin(k, ni, rows) ==
    [outputGeometry |-> {MeshName(k)},
     influenceObjects |-> [i \in 1..ni |-> JointName(ni - i + 1)],
     weights |-> [n \in {MeshName(k)} |-> rows]]

Joint(k, parent, keys) ==
    [name |-> JointName(k),
     parent |-> parent,
     keys |-> keys,
     pos |-> <<k * 100000000 + 6, 0, -14>>,
     rot |-> <<0, 0, 707106781, 707106781>>]

(* A chain of n joints: each joint's parent is the joint before it. *)
ChainJoints(n) ==
    [k \in 1..n |-> Joint(k, IF k = 1 THEN None ELSE JointName(k - 1), <<1>>)]

BaseLambert == <<"lambert1", "phong1">>

BaseRow(ni) == [i \in 1..ni |-> IF i = 1 THEN 1 ELSE 0]

BaseRows(faces, ni) == [v \in 1..NumVertices(faces) |-> BaseRow(ni)]

Scene(ms, skins, js, lambert, minTime, maxTime) ==
    [lambert |-> lambert, joints |-> js, meshes |-> ms,
     skinClusters |-> skins, minTime |-> minTime, maxTime |-> maxTime,
     timeUnit |-> "film"]

(* m meshes of f faces each, all BaseFace but the face at <<p, q>>, which *)
(* is kind; every mesh is connected and skinned. *)
FaceScene(m, f, p, q, kind) ==
    LET faces(k) == [j \in 1..f |-> IF k = p /\ j = q THEN kind ELSE BaseFace]
    IN  Scene([k \in 1..m |-> Mesh(k, faces(k), 1)],
              [k \in 1..m |-> Skin(k, 1, BaseRows(faces(k), 1))],
              ChainJoints(2), BaseLambert, 0, MaxFrame)

(* MaxMeshes meshes of one BaseFace, each connected or not (conn[k]) and *)
(* skinned or not (skinned[k]). *)
FilterScene(conn, skinned) ==
    LET ks == SortedSet({k \in 1..MaxMeshes : skinned[k]})
    IN  Scene([k \in 1..MaxMeshes |->
                  Mesh(k, <<BaseFace>>, IF conn[k] THEN 1 ELSE 0)],
              [i \in 1..Len(ks) |-> Skin(ks[i], 1, BaseRows(<<BaseFace>>, 1))],
              ChainJoints(2), BaseLambert, 0, MaxFrame)


----------------------------------------------------------------------------
(* The writer's helpers. *)

(* A dict with no key. *)
EmptyDict == [k \in {} |-> 0]

(* An attribute hasattr(self, ...) does not find, and one it finds. *)
Unset == [set |-> FALSE]

Cached(map) == [set |-> TRUE, map |-> map]

(* hasattr(self, '__allMeshes') looks for the unmangled name, which the *)
(* assignment to self.__allMeshes never sets: the host is asked each time. *)
_allMeshes(sc) == SelectSeq(sc.meshes, LAMBDA m : m.connections > 0)

(* The same holds of self.__allSkins. *)
_allSkins(sc) == sc.skinClusters

SkinsOf(sc, mesh) ==
    SelectSeq(_allSkins(sc), LAMBDA skin : mesh.name \in skin.outputGeometry)

_hasSkin(sc, mesh) == Len(SkinsOf(sc, mesh)) > 0

_meshesWithSkins(sc) == SelectSeq(_allMeshes(sc), LAMBDA m : _hasSkin(sc, m))

_roundPos(pos) == [i \in 1..3 |-> Round(pos[i])]

_roundQuat(rot) == [i \in 1..4 |-> Round(rot[i])]

_getVertices(mesh) ==
    Flatten([v \in DOMAIN mesh.points |-> _roundPos(mesh.points[v])])

(* a | b on non-negative integers. *)
RECURSIVE BitOr(_, _)
BitOr(a, b) ==
    IF a = 0 THEN b
    ELSE IF b = 0 THEN a
    ELSE (IF a % 2 = 1 \/ b % 2 = 1 THEN 1 ELSE 0)
         + 2 * BitOr(a \div 2, b \div 2)

_getTypeBitmask(opts) == IF opts["normals"] THEN BitOr(0, 32) ELSE 0

(* self._materialIndices after the hasattr test of _getMaterialIndex. *)
MaterialIndicesAttr(attr, mats) ==
    IF attr.set THEN attr
    ELSE Cached(DictOfEnumerate([i \in DOMAIN mats |-> mats[i].DbgName]))

(* _getMaterialIndex: the index of the first material of the face's *)
(* shading engines that the table knows, or -1. *)
_getMaterialIndex(face, attr, mats, opts) ==
    LET table == MaterialIndicesAttr(attr, mats).map
        known == {i \in DOMAIN face.shaders : face.shaders[i] \in DOMAIN table}
    IN  IF opts["materials"] /\ known # {}
        THEN table[face.shaders[Min(known)]]
        ELSE -1

InvalidPolygon(n) ==
    [raised |-> TRUE, type |-> "Exception",
     message |-> <<"Invalid polygon vertex count ", n>>]

(* _exportFaceBitmask with its two first branches exchanged. *)
_exportFaceBitmaskSwapped(face, typeBitmask, hasMaterial, opts) ==
    LET n == Len(face.vertices)
        shape == IF n = 3 THEN 1 ELSE 0
        withMaterial == IF hasMaterial THEN BitOr(shape, 2) ELSE shape
        withUVs == IF opts["uvs"] /\ face.hasUVs
                   THEN BitOr(withMaterial, 8) ELSE withMaterial
    IN  IF n \notin {3, 4}
        THEN [error |-> InvalidPolygon(n), appended |-> <<>>]
        ELSE [error |-> NoError, appended |-> <<BitOr(typeBitmask, withUVs)>>]

(* _exportFaceBitmask: the bitmask appended to output['faces'], or the *)
(* exception raised in its place. *)
_exportFaceBitmask(face, typeBitmask, hasMaterial, opts) ==
    LET n == Len(face.vertices)
        shape == IF n = 4 THEN 1 ELSE 0
        withMaterial == IF hasMaterial THEN BitOr(shape, 2) ELSE shape
        withUVs == IF opts["uvs"] /\ face.hasUVs
                   THEN BitOr(withMaterial, 8) ELSE withMaterial
    IN  IF n \notin {3, 4}
        THEN [error |-> InvalidPolygon(n), appended |-> <<>>]
        ELSE [error |-> NoError, appended |-> <<BitOr(typeBitmask, withUVs)>>]

(* What one pass of the loop of _exportFaces appends after the bitmask: *)
(* the vertices, the material index, the UV indices, the normal indices. *)
FaceVerticesOneBased(face) ==
    [i \in DOMAIN face.vertices |-> face.vertices[i] + 1]

FaceVertices(face) == face.vertices

FaceMaterial(materialIndex, opts) ==
    IF opts["materials"] /\ materialIndex # -1 THEN <<materialIndex>> ELSE <<>>

FaceUVsOfAnyFace(face, opts) ==
    IF opts["uvs"]
    THEN [i \in 1..Len(face.vertices) |-> face.uvIndices[i]]
    ELSE <<>>

FaceUVs(face, opts) ==
    IF opts["uvs"] /\ face.hasUVs
    THEN [i \in 1..Len(face.vertices) |-> face.uvIndices[i]]
    ELSE <<>>

FaceNormals(face, opts) ==
    IF opts["normals"]
    THEN [i \in 1..Len(face.vertices) |-> face.normalIndices[i]]
    ELSE <<>>

_exportMaterial(name) ==
    [DbgName |-> name, blending |-> "NormalBlending", depthTest |-> TRUE,
     depthWrite |-> TRUE, vertexColors |-> FALSE]

(* self._jointNames after the hasattr test of _indexOfJoint. *)
JointNamesAttr(attr, sc) ==
    IF attr.set THEN attr
    ELSE Cached(DictOfEnumerate([i \in DOMAIN sc.joints |-> sc.joints[i].name]))

_indexOfJoint(name, attr, sc) ==
    LET table == JointNamesAttr(attr, sc).map
    IN  IF name \in DOMAIN table THEN table[name] ELSE -1

BoneParent(joint, attr, sc) ==
    IF joint.parent # None THEN _indexOfJoint(joint.parent, attr, sc) ELSE -1

_exportBones(attr, sc) ==
    [i \in DOMAIN sc.joints |->
        [parent |-> BoneParent(sc.joints[i], attr, sc),
         name |-> sc.joints[i].name,
         pos |-> _roundPos(sc.joints[i].pos),
         rotq |-> _roundQuat(sc.joints[i].rot)]]

(* FramesPerSecond.value(): the unit's name is a sequence of characters. *)
MAYA_VALUES ==
    [name \in {"game", "film", "pal", "ntsc", "show", "palf", "ntscf"} |->
        CASE name = "game" -> 15 [] name = "film" -> 24 [] name = "pal" -> 25
          [] name = "ntsc" -> 30 [] name = "show" -> 48 [] name = "palf" -> 50
          [] name = "ntscf" -> 60]

(* The unit names of the model that are not in the table spell their rate *)
(* in digits, as in '2fps'; the digits are kept, and read as a number. *)
DigitsOf ==
    [name \in {"2fps", "120fps"} |-> IF name = "2fps" THEN 2 ELSE 120]

FramesPerSecond(fpsString) ==
    IF fpsString \in DOMAIN MAYA_VALUES
    THEN MAYA_VALUES[fpsString]
    ELSE DigitsOf[fpsString]

(* The joint as the host poses it at a frame. *)
TranslationAt(joint, frame) ==
    <<joint.pos[1] + frame * 100000000, joint.pos[2], joint.pos[3]>>

_getCurrentKeyframe(joint, frame, frameRate, sc) ==
    [time |-> <<frame - sc.minTime, frameRate>>,
     pos |-> _roundPos(TranslationAt(joint, frame)),
     rot |-> _roundQuat(joint.rot),
     scl |-> <<1, 1, 1>>]

KeyframeFramesWithoutLast(joint, sc) ==
    SortedSet(Range(joint.keys) \cup {sc.minTime})

(* The frames _getKeyframes visits for a joint, in the order it visits. *)
KeyframeFrames(joint, sc) ==
    SortedSet(Range(joint.keys) \cup {sc.minTime, sc.maxTime})

_getKeyframes(joint, frameRate, sc) ==
    LET frames == KeyframeFrames(joint, sc)
    IN  [i \in DOMAIN frames |->
            _getCurrentKeyframe(joint, frames[i], frameRate, sc)]

(* The "parent" of the i-th joint in the animation's hierarchy: the *)
(* counter i of _exportKeyframeAnimations, which starts at -1. *)
HierarchyParent(i) == -1 + (i - 1)

_exportKeyframeAnimations(sc) ==
    LET frameRate == FramesPerSecond(sc.timeUnit)
    IN  [name |-> "skeletalAction.001",
         length |-> <<sc.maxTime - sc.minTime, frameRate>>,
         fps |-> 1,
         hierarchy |-> [i \in DOMAIN sc.joints |->
                           [parent |-> HierarchyParent(i),
                            keys |-> _getKeyframes(sc.joints[i], frameRate, sc)]]]

OutputDocumentWithAnimations(ms, mats, bns, anims, opts) ==
    [meshes |-> ms, materials |-> mats, animations |-> anims]
    @@ (IF opts["bones"]
        THEN [bones |-> bns, influencesPerVertex |-> opts["influencesPerVertex"]]
        ELSE EmptyDict)

(* The document write assembles. *)
OutputDocument(ms, mats, bns, anims, opts) ==
    [meshes |-> ms, materials |-> mats]
    @@ (IF opts["bones"]
        THEN [bones |-> bns, influencesPerVertex |-> opts["influencesPerVertex"]]
        ELSE EmptyDict)
    @@ (IF opts["skeletalAnim"] THEN [animations |-> anims] ELSE EmptyDict)

(* The file after "with file(path, 'w') as f: f.write(json.dumps(...))": *)
(* the text stands for the document it spells, in one of two layouts. *)
WrittenFile(document, opts) ==
    [exists |-> TRUE,
     layout |-> IF opts["prettyOutput"] THEN "sorted keys, indent 4" ELSE "compact",
     document |-> document]

NoFile == [exists |-> FALSE]

OldFile == [exists |-> TRUE, layout |-> "not this writer's"]

(* One pass of the loop of _exportSkins over a vertex's row of weights: *)
(* the positive weights, the joints they belong to, the padding. *)
Positive(row) == {i \in DOMAIN row : row[i] > 0}

SkinWeights(row) ==
    LET at == SortedSet(Positive(row)) IN [k \in DOMAIN at |-> row[at[k]]]

SkinIndices(row, skin, attr, sc) ==
    LET at == SortedSet(Positive(row))
    IN  [k \in DOMAIN at |-> _indexOfJoint(skin.influenceObjects[at[k]], attr, sc)]

TooManyInfluences(row, opts) ==
    Cardinality(Positive(row)) > opts["influencesPerVertex"]

SkinPaddingOfFullWidth(row, opts) ==
    [i \in 1..opts["influencesPerVertex"] |-> 0]

SkinPadding(row, opts) ==
    LET n == opts["influencesPerVertex"] - Cardinality(Positive(row))
    IN  [i \in 1..n |-> 0]

SkinCapacity(mesh, opts) ==
    [raised |-> TRUE, type |-> "Exception",
     message |-> <<"More than ", opts["influencesPerVertex"],
                   " influences on a vertex in ", mesh.name, ".">>]

(* Which of the two exceptions of the export an error is. *)
IsInvalidPolygon(e) ==
    /\ e.raised
    /\ e.type = "Exception"
    /\ e.message[1] = "Invalid polygon vertex count "

IsSkinCapacity(e) ==
    /\ e.raised
    /\ e.type = "Exception"
    /\ e.message[1] = "More than "

----------------------------------------------------------------------------
(* The write call, step by step. *)

CurrentMesh == _meshesWithSkins(scene)[meshIdx]

CurrentSkin == SkinsOf(scene, CurrentMesh)[1]

CurrentRows == CurrentSkin.weights[CurrentMesh.name]

(* write, lines 28-35: the options are parsed, and when that raised *)
(* nothing the accumulators are emptied.  mi and jn are the two lookup *)
(* tables the writer holds as the call begins. *)
WriteBegin(tokens, mi, jn) ==
    LET parsed == _parseOptions(tokens)
    IN  /\ optionString' = tokens
        /\ options' = parsed.options
        /\ error' = parsed.error
        /\ IF parsed.error.raised
           THEN /\ pc' = "error"
                /\ UNCHANGED <<meshes, materials, bones, animations>>
           ELSE /\ pc' = "materials"
                /\ meshes' = <<>>
                /\ materials' = <<>>
                /\ bones' = <<>>
                /\ animations' = <<>>
        /\ materialIndices' = mi
        /\ jointNames' = jn
        /\ meshIdx' = 1
        /\ faceIdx' = 1
        /\ vtxIdx' = 1
        /\ output' = EmptyDict
        /\ calls' = calls + 1
        /\ frameLog' = <<>>
        /\ faceLog' = <<>>
        /\ diskBefore' = disk
        /\ UNCHANGED <<scene, curTime, disk>>

(* ThreeJsTranslator.writer: a new ThreeJsWriter, and write on it. *)
writer(tokens) ==
    /\ pc = "idle"
    /\ WriteBegin(tokens, Unset, Unset)

(* write once more on the writer of an earlier call. *)
write(tokens) ==
    /\ pc \in {"done", "error"}
    /\ calls < MaxCalls
    /\ WriteBegin(tokens, materialIndices, jointNames)

(* write, lines 37-39. *)
exportMaterials ==
    /\ pc = "materials"
    /\ materials' = IF options["materials"]
                    THEN [i \in DOMAIN scene.lambert |->
                             _exportMaterial(scene.lambert[i])]
                    ELSE materials
    /\ pc' = "bones"
    /\ UNCHANGED <<scene, curTime, disk, optionString, options, meshes, bones,
                   animations, materialIndices, jointNames, meshIdx, faceIdx,
                   vtxIdx, output, error, calls, frameLog, faceLog, diskBefore>>

(* write, lines 40-44.  _indexOfJoint runs, and sets self._jointNames, *)
(* when a joint has a parent. *)
exportBones ==
    /\ pc = "bones"
    /\ IF options["bones"]
       THEN /\ bones' = _exportBones(jointNames, scene)
            /\ jointNames' =
                   IF \E i \in DOMAIN scene.joints : scene.joints[i].parent # None
                   THEN JointNamesAttr(jointNames, scene)
                   ELSE jointNames
       ELSE UNCHANGED <<bones, jointNames>>
    /\ pc' = "meshes"
    /\ UNCHANGED <<scene, curTime, disk, optionString, options, meshes,
                   materials, animations, materialIndices, meshIdx, faceIdx,
                   vtxIdx, output, error, calls, frameLog, faceLog, diskBefore>>

(* _exportMeshes and _exportMesh, lines 93-95 and 99-102, and the first *)
(* two lines of _exportFaces: the next mesh's dict, with its vertices. *)
beginMesh ==
    /\ pc = "meshes"
    /\ meshIdx <= Len(_meshesWithSkins(scene))
    /\ output' = (IF options["vertices"]
                  THEN [vertices |-> _getVertices(CurrentMesh)] ELSE EmptyDict)
                 @@ (IF options["faces"] THEN [faces |-> <<>>] ELSE EmptyDict)
    /\ faceIdx' = 1
    /\ pc' = "faces"
    /\ UNCHANGED <<scene, curTime, disk, optionString, options, meshes,
                   materials, bones, animations, materialIndices, jointNames,
                   meshIdx, vtxIdx, error, calls, frameLog, faceLog, diskBefore>>

(* _exportFaces, lines 142-154: one pass of its loop. *)
exportFace ==
    /\ pc = "faces"
    /\ options["faces"]
    /\ faceIdx <= Len(CurrentMesh.faces)
    /\ LET face == CurrentMesh.faces[faceIdx]
           materialIndex ==
               _getMaterialIndex(face, materialIndices, materials, options)
           hasMaterial == materialIndex # -1
           bitmask == _exportFaceBitmask(face, _getTypeBitmask(options),
                                         hasMaterial, options)
           vertexPart == FaceVertices(face)
           materialPart == FaceMaterial(materialIndex, options)
           uvPart == FaceUVs(face, options)
           normalPart == FaceNormals(face, options)
       IN  /\ materialIndices' = MaterialIndicesAttr(materialIndices, materials)
           /\ IF bitmask.error.raised
              THEN /\ error' = bitmask.error
                   /\ pc' = "error"
                   /\ UNCHANGED <<output, faceIdx, faceLog>>
              ELSE /\ output' =
                          [output EXCEPT !["faces"] =
                              @ \o bitmask.appended \o vertexPart
                                \o materialPart \o uvPart \o normalPart]
                   /\ faceLog' = Append(faceLog,
                          [mesh |-> meshIdx, face |-> faceIdx,
                           bitmask |-> bitmask.appended[1],
                           vertices |-> vertexPart,
                           material |-> materialPart,
                           uvs |-> uvPart,
                           normals |-> normalPart])
                   /\ faceIdx' = faceIdx + 1
                   /\ UNCHANGED <<error, pc>>
    /\ UNCHANGED <<scene, curTime, disk, optionString, options, meshes,
                   materials, bones, animations, jointNames, meshIdx, vtxIdx,
                   calls, frameLog, diskBefore>>

(* _exportMesh, lines 106-114, once the faces are done: the normals, the *)
(* UVs, and the two empty lists _exportSkins starts from. *)
endFaces ==
    /\ pc = "faces"
    /\ ~options["faces"] \/ faceIdx > Len(CurrentMesh.faces)
    /\ output' =
          output
          @@ (IF options["normals"]
              THEN [normals |-> Flatten([i \in DOMAIN CurrentMesh.normals |->
                                    _roundPos(CurrentMesh.normals[i])]),
                    tangents |-> Flatten([i \in DOMAIN CurrentMesh.tangents |->
                                    _roundPos(CurrentMesh.tangents[i])]),
                    binormals |-> Flatten([i \in DOMAIN CurrentMesh.binormals |->
                                    _roundPos(CurrentMesh.binormals[i])])]
              ELSE EmptyDict)
          @@ (IF options["uvs"]
              THEN [uvs |-> Flatten([i \in DOMAIN CurrentMesh.us |->
                                <<CurrentMesh.us[i], CurrentMesh.vs[i]>>])]
              ELSE EmptyDict)
          @@ (IF options["bones"]
              THEN [skinWeights |-> <<>>, skinIndices |-> <<>>]
              ELSE EmptyDict)
    /\ vtxIdx' = 1
    /\ pc' = "skins"
    /\ UNCHANGED <<scene, curTime, disk, optionString, options, meshes,
                   materials, bones, animations, materialIndices, jointNames,
                   meshIdx, faceIdx, error, calls, frameLog, faceLog,
                   diskBefore>>

(* _exportSkins, lines 349-363: one pass of its loop over the vertices. *)
(* The positive weights are appended before their number is checked.   *)
exportSkinVertex ==
    /\ pc = "skins"
    /\ options["bones"]
    /\ vtxIdx <= Len(CurrentRows)
    /\ LET row == CurrentRows[vtxIdx]
           weights == SkinWeights(row)
           indices == SkinIndices(row, CurrentSkin, jointNames, scene)
           tooMany == TooManyInfluences(row, options)
           padding == IF tooMany THEN <<>> ELSE SkinPadding(row, options)
       IN  /\ output' = [output EXCEPT
                            !["skinWeights"] = @ \o weights \o padding,
                            !["skinIndices"] = @ \o indices \o padding]
           /\ jointNames' = IF Positive(row) # {}
                            THEN JointNamesAttr(jointNames, scene)
                            ELSE jointNames
           /\ IF tooMany
              THEN /\ error' = SkinCapacity(CurrentMesh, options)
                   /\ pc' = "error"
                   /\ UNCHANGED vtxIdx
              ELSE /\ vtxIdx' = vtxIdx + 1
                   /\ UNCHANGED <<error, pc>>
    /\ UNCHANGED <<scene, curTime, disk, optionString, options, meshes,
                   materials, bones, animations, materialIndices, meshIdx,
                   faceIdx, calls, frameLog, faceLog, diskBefore>>

(* _exportMeshes, line 96: the mesh's dict joins self.meshes. *)
endMesh ==
    /\ pc = "skins"
    /\ ~options["bones"] \/ vtxIdx > Len(CurrentRows)
    /\ meshes' = Append(meshes, output)
    /\ meshIdx' = meshIdx + 1
    /\ pc' = "meshes"
    /\ UNCHANGED <<scene, curTime, disk, optionString, options, materials,
                   bones, animations, materialIndices, jointNames, faceIdx,
                   vtxIdx, output, error, calls, frameLog, faceLog, diskBefore>>

(* write, lines 47-49, once every mesh is exported.  _getKeyframes moves *)
(* the host to each frame it samples, joint after joint.                 *)
exportKeyframeAnimations ==
    /\ pc = "meshes"
    /\ meshIdx > Len(_meshesWithSkins(scene))
    /\ IF options["skeletalAnim"]
       THEN LET visited == Flatten([i \in DOMAIN scene.joints |->
                                       KeyframeFrames(scene.joints[i], scene)])
            IN  /\ animations' =
                       Append(animations, _exportKeyframeAnimations(scene))
                /\ frameLog' = frameLog \o visited
                /\ curTime' = IF visited = <<>> THEN curTime
                              ELSE visited[Len(visited)]
       ELSE UNCHANGED <<animations, frameLog, curTime>>
    /\ pc' = "writing"
    /\ UNCHANGED <<scene, disk, optionString, options, meshes, materials,
                   bones, materialIndices, jointNames, meshIdx, faceIdx,
                   vtxIdx, output, error, calls, faceLog, diskBefore>>

ReachesWriteFileDespiteFace == pc = "writing" \/ IsInvalidPolygon(error)

(* write reaches line 51 when nothing before it raised. *)
ReachesWriteFile == pc = "writing"

(* write, lines 51-68: the document is assembled and the file written. *)
writeFile ==
    /\ ReachesWriteFile
    /\ disk' = WrittenFile(OutputDocument(meshes, materials, bones,
                                          animations, options), options)
    /\ pc' = "done"
    /\ UNCHANGED <<scene, curTime, optionString, options, meshes, materials,
                   bones, animations, materialIndices, jointNames, meshIdx,
                   faceIdx, vtxIdx, output, error, calls, frameLog, faceLog,
                   diskBefore>>

Steps ==
    \/ exportMaterials
    \/ exportBones
    \/ beginMesh
    \/ exportFace
    \/ endFaces
    \/ exportSkinVertex
    \/ endMesh
    \/ exportKeyframeAnimations
    \/ writeFile

----------------------------------------------------------------------------
(* The scenes and the option strings the specifications draw from. *)

(* The option string the export dialog builds: the chosen keys in the    *)
(* order of componentKeys, 'bones' and 'bakeAnimations' followed by the   *)
(* given arguments. *)
OptionString(keys, boneArgs, bakeArgs) ==
    Flatten([i \in DOMAIN componentKeys |->
        IF componentKeys[i] \notin keys THEN <<>>
        ELSE IF componentKeys[i] = "bones" THEN <<"bones">> \o boneArgs
        ELSE IF componentKeys[i] = "bakeAnimations"
             THEN <<"bakeAnimations">> \o bakeArgs
        ELSE <<componentKeys[i]>>])

(* kDefaultOptionsString. *)
DefaultOptionString == <<"0">>

(* Every export step runs under this one. *)
FullOptionString ==
    OptionString({"vertices", "normals", "uvs", "faces", "materials", "bones",
                  "skeletalAnim"}, <<"1">>, <<>>)

GeomOptionStrings ==
    {OptionString({"faces", "bones"} \cup F \cup V, <<"1">>, <<>>) :
        F \in SUBSET {"normals", "uvs", "materials"},
        V \in SUBSET {"vertices"}}
    \cup {OptionString({"vertices"}, <<>>, <<>>), FullOptionString}

(* m meshes of one face each, the face of mesh 1 of n1 vertices; the skin *)
(* of each mesh has ni influences, and the row of vertex q of mesh p is    *)
(* row. *)
SkinScene(m, ni, p, q, row, n1) ==
    LET faces(k) == <<Face(IF k = 1 THEN n1 ELSE 3, TRUE, <<"lambert1">>)>>
        rows(k) == [v \in 1..NumVertices(faces(k)) |->
                       IF k = p /\ v = q THEN row ELSE BaseRow(ni)]
    IN  Scene([k \in 1..m |-> Mesh(k, faces(k), 1)],
              [k \in 1..m |-> Skin(k, ni, rows(k))],
              ChainJoints(MaxInfluences), BaseLambert, 0, MaxFrame)

SkinOptionStrings ==
    {OptionString({"bones"} \cup F, <<ToString(n)>>, <<>>) :
        F \in SUBSET {"faces"}, n \in -1..(MaxInfluences + 1)}
    \cup {FullOptionString}

(* n joints; parent[k] is 0 for a joint with no parent, -1 for one under *)
(* a transform that is no joint, and j for one under joint j. *)
JointScene(n, parent) ==
    LET js == [k \in 1..n |->
                  Joint(k, CASE parent[k] = 0 -> None
                             [] parent[k] = -1 -> "group1"
                             [] OTHER -> JointName(parent[k]), <<1>>)]
    IN  Scene(<<Mesh(1, <<BaseFace>>, 1)>>, <<Skin(1, 1, BaseRows(<<BaseFace>>, 1))>>,
              js, BaseLambert, 0, MaxFrame)

(* Two joints in a chain, joint d with the keyframes keys, the playback *)
(* range first..last, the time unit unit. *)
KeyScene(d, keys, first, last, unit) ==
    LET js == [k \in 1..2 |->
                  Joint(k, IF k = 1 THEN None ELSE JointName(1),
                        IF k = d THEN keys ELSE <<1>>)]
        sc == Scene(<<Mesh(1, <<BaseFace>>, 1)>>,
                    <<Skin(1, 1, BaseRows(<<BaseFace>>, 1))>>,
                    js, BaseLambert, first, last)
    IN  [sc EXCEPT !.timeUnit = unit]

AnimOptionStrings ==
    {OptionString(F, <<"1">>, <<>>) : F \in SUBSET {"bones", "skeletalAnim"}}
    \cup {OptionString({"vertices", "bakeAnimations"} \cup F, <<>>, args) :
             F \in SUBSET {"skeletalAnim"},
             args \in {<<"0", "10", "2">>, <<"1", "3", "1">>, <<"2", "2", "1">>}}
    \cup {FullOptionString}

DocScenes ==
    {FaceScene(1, 1, 1, 1, BaseFace),
     FaceScene(2, 1, 2, 1, Face(5, TRUE, <<>>)),
     SkinScene(2, 2, 2, 2, <<1, 2>>, 3),
     FilterScene([k \in 1..MaxMeshes |-> TRUE], [k \in 1..MaxMeshes |-> FALSE])}

DocOptionStrings ==
    {OptionString({"faces"} \cup F, boneArgs, bakeArgs) :
        F \in SUBSET {"materials", "bones", "skeletalAnim", "bakeAnimations",
                      "prettyOutput"},
        boneArgs \in {<<"1">>, <<>>, <<"x">>},
        bakeArgs \in {<<"0", "2", "1">>, <<"0", "2">>, <<"0", "x", "1">>}}
    \cup {DefaultOptionString, FullOptionString}

(* One mesh of one face shaded by phong1, under a list of materials and a *)
(* list of joints. *)
ReuseScene(lambert, js) ==
    [FaceScene(1, 1, 1, 1, Face(3, TRUE, <<"phong1">>))
        EXCEPT !.lambert = lambert, !.joints = js]

ReuseScenes ==
    {ReuseScene(BaseLambert, ChainJoints(2)),
     ReuseScene(<<"phong1", "lambert1">>, ChainJoints(2)),
     ReuseScene(BaseLambert,
                <<Joint(2, JointName(1), <<1>>), Joint(1, None, <<1>>)>>)}

ReuseOptionStrings ==
    {FullOptionString,
     OptionString({"faces", "bones"}, <<"1">>, <<>>),
     OptionString({"faces", "materials"}, <<>>, <<>>)}

----------------------------------------------------------------------------
(* The specifications. *)

InitWriter(disks) ==
    /\ disk \in disks
    /\ curTime = 0
    /\ optionString = <<>>
    /\ options = EmptyDict
    /\ meshes = <<>>
    /\ materials = <<>>
    /\ bones = <<>>
    /\ animations = <<>>
    /\ materialIndices = Unset
    /\ jointNames = Unset
    /\ pc = "idle"
    /\ meshIdx = 1
    /\ faceIdx = 1
    /\ vtxIdx = 1
    /\ output = EmptyDict
    /\ error = NoError
    /\ calls = 0
    /\ frameLog = <<>>
    /\ faceLog = <<>>
    /\ diskBefore = disk

(* The host's user edits the scene between two exports. *)
SceneEdit ==
    /\ pc \in {"idle", "done", "error"}
    /\ scene' \in ReuseScenes \ {scene}
    /\ UNCHANGED <<curTime, disk, optionString, options, meshes, materials,
                   bones, animations, materialIndices, jointNames, pc, meshIdx,
                   faceIdx, vtxIdx, output, error, calls, frameLog, faceLog,
                   diskBefore>>

(* One export of a scene of varied geometry. *)
Init ==
    /\ \/ \E m \in 1..MaxMeshes, f \in 1..MaxFaces, p \in 1..MaxMeshes,
             q \in 1..MaxFaces, kind \in FaceKinds :
             scene = FaceScene(m, f, p, q, kind)
       \/ \E conn \in [1..MaxMeshes -> BOOLEAN],
             skinned \in [1..MaxMeshes -> BOOLEAN] :
             scene = FilterScene(conn, skinned)
    /\ InitWriter({NoFile})

Next == (\E tokens \in GeomOptionStrings : writer(tokens)) \/ Steps

Spec == Init /\ [][Next]_vars

(* One export of a scene of varied skin weights. *)
InitSkin ==
    /\ \E m \in 1..MaxMeshes, p \in 1..MaxMeshes, q \in 1..3, n1 \in {3, 5},
          ni \in 1..MaxInfluences :
          \E row \in [1..ni -> 0..MaxWeight] :
             scene = SkinScene(m, ni, p, q, row, n1)
    /\ InitWriter({NoFile})

NextSkin == (\E tokens \in SkinOptionStrings : writer(tokens)) \/ Steps

SpecSkin == InitSkin /\ [][NextSkin]_vars

(* One export of a scene of varied joints and keyframes. *)
InitAnim ==
    /\ \/ \E n \in 1..MaxJoints, parent \in [1..MaxJoints -> -1..(MaxJoints - 1)] :
             /\ \A k \in 1..MaxJoints : parent[k] < k
             /\ scene = JointScene(n, parent)
       \/ \E d \in 1..2, keys \in BoundedSeq(0..MaxFrame, MaxKeys),
             first \in 0..MaxFrame, last \in 0..MaxFrame,
             unit \in {"film", "2fps"} :
             /\ first <= last
             /\ scene = KeyScene(d, keys, first, last, unit)
    /\ InitWriter({NoFile})

NextAnim == (\E tokens \in AnimOptionStrings : writer(tokens)) \/ Steps

SpecAnim == InitAnim /\ [][NextAnim]_vars

(* One export under varied options, well formed or not, onto a path that *)
(* holds a file or none. *)
InitDoc ==
    /\ scene \in DocScenes
    /\ InitWriter({NoFile, OldFile})

NextDoc == (\E tokens \in DocOptionStrings : writer(tokens)) \/ Steps

SpecDoc == InitDoc /\ [][NextDoc]_vars

(* Several exports by one writer, the scene edited in between. *)
InitReuse ==
    /\ scene \in ReuseScenes
    /\ InitWriter({NoFile})

NextReuse ==
    \/ \E tokens \in ReuseOptionStrings : writer(tokens)
    \/ \E tokens \in ReuseOptionStrings : write(tokens)
    \/ SceneEdit
    \/ Steps

SpecReuse == InitReuse /\ [][NextReuse]_vars

----------------------------------------------------------------------------
(* What the claims speak of. *)

ExportedMeshes == _meshesWithSkins(scene)

(* Bit i of a bitmask. *)
Bit(b, i) == (b \div (2 ^ i)) % 2

(* The face a log entry is about, and what the entry appended. *)
LoggedFace(e) == ExportedMeshes[e.mesh].faces[e.face]

LoggedRecord(e) == <<e.bitmask>> \o e.vertices \o e.material \o e.uvs \o e.normals

(* The faces the loops of _exportMeshes and _exportFaces have passed. *)
PassedFaces ==
    IF pc \in {"idle", "materials", "bones"} \/ ~options["faces"] THEN {}
    ELSE {<<k, j>> \in (1..Len(ExportedMeshes)) \X (1..(MaxFaces + 1)) :
             /\ j <= Len(ExportedMeshes[k].faces)
             /\ \/ k < meshIdx
                \/ k = meshIdx /\ pc \in {"faces", "skins", "error"} /\ j < faceIdx}

(* The faces array of the k-th exported mesh, as far as it is built. *)
FacesArray(k) ==
    IF k <= Len(meshes) THEN meshes[k]["faces"] ELSE output["faces"]

LoggedRecordsOf(k) ==
    Flatten([i \in DOMAIN faceLog |->
                IF faceLog[i].mesh = k THEN LoggedRecord(faceLog[i]) ELSE <<>>])

(* The vertices of the exported meshes before the k-th. *)
VertexOffset(k) ==
    SumSeq([j \in 1..(k - 1) |-> Len(ExportedMeshes[j].points)])

(* C1, as the specification states it: every face vertex index emitted  *)
(* for the k-th exported mesh is the mesh-local index plus the number of *)
(* vertices of the meshes before it, and the indices of two different    *)
(* meshes never overlap.                                                 *)
C1_IndicesOffsetByEarlierMeshes ==
    /\ \A i \in DOMAIN faceLog :
          LET e == faceLog[i]
          IN  \A c \in DOMAIN e.vertices :
                 /\ e.vertices[c] = LoggedFace(e).vertices[c] + VertexOffset(e.mesh)
                 /\ e.vertices[c] >= VertexOffset(e.mesh)
    /\ \A i, j \in DOMAIN faceLog :
          faceLog[i].mesh # faceLog[j].mesh
             => Range(faceLog[i].vertices) \cap Range(faceLog[j].vertices) = {}

(* C1, amended: every face vertex index emitted for an exported mesh is *)
(* the mesh-local index the host reports, with nothing added; it is less *)
(* than the mesh's own number of vertices, and the vertices array         *)
(* exported in the same mesh's dict holds three coordinates for each of   *)
(* them, so the index points into that mesh's own array.                  *)
C1_IndicesAreMeshLocal ==
    /\ \A i \in DOMAIN faceLog :
          LET e == faceLog[i]
              mesh == ExportedMeshes[e.mesh]
          IN  /\ e.vertices = LoggedFace(e).vertices
              /\ \A c \in DOMAIN e.vertices :
                    /\ 0 <= e.vertices[c]
                    /\ e.vertices[c] < Len(mesh.points)
              /\ SubSeq(LoggedRecord(e), 2, 1 + Len(LoggedFace(e).vertices))
                    = LoggedFace(e).vertices
    /\ \A k \in DOMAIN meshes :
          /\ options["vertices"] =>
                Len(meshes[k]["vertices"]) = 3 * Len(ExportedMeshes[k].points)
          /\ options["faces"] => meshes[k]["faces"] = LoggedRecordsOf(k)

(* An export of two meshes is done, with the vertices and the faces of *)
(* both, and the second mesh's face has an index below the offset.     *)
C1_Witness ==
    /\ pc = "done"
    /\ Len(meshes) >= 2
    /\ options["vertices"]
    /\ \E i \in DOMAIN faceLog :
          /\ faceLog[i].mesh = 2
          /\ \E c \in DOMAIN faceLog[i].vertices :
                faceLog[i].vertices[c] < VertexOffset(2)

(* C3: for every exported face bit 0 of the bitmask is 1 iff the face   *)
(* has 4 vertices and 0 iff it has 3; every face the export has passed   *)
(* is such a face, with one bitmask; and when the export raised for a    *)
(* face of another vertex count, nothing was appended for that face.     *)
C3_QuadBit ==
    /\ \A i \in DOMAIN faceLog :
          LET e == faceLog[i]
              n == Len(LoggedFace(e).vertices)
          IN  /\ n \in {3, 4}
              /\ Bit(e.bitmask, 0) = 1 <=> n = 4
              /\ Bit(e.bitmask, 0) = 0 <=> n = 3
    /\ {<<faceLog[i].mesh, faceLog[i].face>> : i \in DOMAIN faceLog} = PassedFaces
    /\ Len(faceLog) = Cardinality(PassedFaces)
    /\ IsInvalidPolygon(error) =>
          /\ pc = "error"
          /\ Len(ExportedMeshes[meshIdx].faces[faceIdx].vertices) \notin {3, 4}
          /\ error.message[2] = Len(ExportedMeshes[meshIdx].faces[faceIdx].vertices)
          /\ output["faces"] = LoggedRecordsOf(meshIdx)
    /\ (pc \in {"faces", "skins"} /\ options["faces"]) =>
          output["faces"] = LoggedRecordsOf(meshIdx)

(* A triangle was exported, and then the export raised for a face of 5 *)
(* vertices of the same mesh.                                          *)
C3_Witness ==
    /\ IsInvalidPolygon(error)
    /\ \E i \in DOMAIN faceLog :
          /\ faceLog[i].mesh = meshIdx
          /\ Bit(faceLog[i].bitmask, 0) = 0
          /\ Len(faceLog[i].vertices) = 3

(* C10: in every face record the bitmask tells which fields follow it:  *)
(* bit 1 iff a material index follows the vertex indices, bit 3 iff one  *)
(* UV index per corner, bit 5 iff one normal index per corner; so a      *)
(* record of a face of n vertices has 1 + n + [bit1] + n*[bit3] +        *)
(* n*[bit5] entries, and the faces array is these records on end.        *)
C10_BitmaskDescribesRecord ==
    /\ \A i \in DOMAIN faceLog :
          LET e == faceLog[i]
              n == Len(LoggedFace(e).vertices)
              b == e.bitmask
          IN  /\ Len(e.vertices) = n
              /\ Bit(b, 1) = 1 <=> Len(e.material) = 1
              /\ Bit(b, 1) = 0 <=> Len(e.material) = 0
              /\ Bit(b, 3) = 1 <=> Len(e.uvs) = n
              /\ Bit(b, 3) = 0 <=> Len(e.uvs) = 0
              /\ Bit(b, 5) = 1 <=> Len(e.normals) = n
              /\ Bit(b, 5) = 0 <=> Len(e.normals) = 0
              /\ Bit(b, 2) = 0 /\ Bit(b, 4) = 0 /\ b < 64
              /\ Len(LoggedRecord(e))
                    = 1 + n + Bit(b, 1) + n * Bit(b, 3) + n * Bit(b, 5)
    /\ \A k \in 1..Len(ExportedMeshes) :
          ((k <= Len(meshes) \/ (k = meshIdx /\ pc \in {"faces", "skins"}))
           /\ options["faces"])
             => FacesArray(k) = LoggedRecordsOf(k)

(* A quad and a triangle of one mesh were exported, each with a        *)
(* material, UVs and normals: records of 14 and of 11 entries.         *)
C10_Witness ==
    /\ pc = "done"
    /\ \E i, j \in DOMAIN faceLog :
          /\ faceLog[i].mesh = faceLog[j].mesh
          /\ faceLog[i].bitmask = 43
          /\ Len(LoggedRecord(faceLog[i])) = 14
          /\ faceLog[j].bitmask = 42
          /\ Len(LoggedRecord(faceLog[j])) = 11

(* The 0-based position of a name in a list of distinct names. *)
PositionOf(name, names) == (CHOOSE i \in DOMAIN names : names[i] = name) - 1

JointList == [i \in DOMAIN scene.joints |-> scene.joints[i].name]

Document == disk.document

(* C2: when a write call ends in an error, the file at the path is as  *)
(* it was when the call began, absent or with its old content; and the  *)
(* file is touched by nothing before the call is done.                  *)
C2_NoFileOnError ==
    /\ error.raised => (pc = "error" /\ disk = diskBefore)
    /\ pc # "done" => disk = diskBefore

(* With one mesh exported in memory, the export raised for a face of 5 *)
(* vertices of the next mesh, and the old file is still on disk.       *)
C2_Witness ==
    /\ pc = "error"
    /\ IsInvalidPolygon(error)
    /\ Len(meshes) >= 1
    /\ diskBefore = OldFile
    /\ disk = OldFile

(* C7, as the specification states it: the document holds a section iff *)
(* its flag is enabled, and always a metadata block with the format      *)
(* version and the generator.                                            *)
C7_SectionsFollowFlags ==
    pc = "done" =>
       /\ "materials" \in DOMAIN Document <=> options["materials"]
       /\ "bones" \in DOMAIN Document <=> options["bones"]
       /\ "influencesPerVertex" \in DOMAIN Document <=> options["bones"]
       /\ "animations" \in DOMAIN Document <=> options["skeletalAnim"]
       /\ "metadata" \in DOMAIN Document
       /\ {"formatVersion", "generatedBy"} \subseteq DOMAIN Document["metadata"]

(* C7, amended: the document always holds 'meshes' and 'materials', the *)
(* latter an empty list when 'materials' is not enabled; it holds        *)
(* 'bones' and 'influencesPerVertex' iff 'bones' is enabled, and         *)
(* 'animations' iff 'skeletalAnim' is; it holds nothing else, and so no  *)
(* metadata block.                                                       *)
C7_DocumentKeys ==
    pc = "done" =>
       /\ DOMAIN Document =
             {"meshes", "materials"}
             \cup (IF options["bones"] THEN {"bones", "influencesPerVertex"} ELSE {})
             \cup (IF options["skeletalAnim"] THEN {"animations"} ELSE {})
       /\ ~options["materials"] => Document["materials"] = <<>>
       /\ options["materials"] => Len(Document["materials"]) = Len(scene.lambert)
       /\ options["bones"] =>
             Document["influencesPerVertex"] = options["influencesPerVertex"]
       /\ "metadata" \notin DOMAIN Document

(* A document was written with bones, without the materials flag and   *)
(* without skeletalAnim: it holds an empty 'materials' all the same.   *)
C7_Witness ==
    /\ pc = "done"
    /\ ~options["materials"]
    /\ options["bones"]
    /\ ~options["skeletalAnim"]
    /\ "materials" \in DOMAIN Document
    /\ "bones" \in DOMAIN Document

(* The rows of weights of the k-th exported mesh, and whether one of    *)
(* them has more positive weights than influencesPerVertex.              *)
RowsOf(k) == SkinsOf(scene, ExportedMeshes[k])[1].weights[ExportedMeshes[k].name]

InfluencesOf(k) == SkinsOf(scene, ExportedMeshes[k])[1].influenceObjects

PositiveCount(row) == Len(SelectSeq(row, LAMBDA w : w > 0))

OverCapacity(k) ==
    \E v \in DOMAIN RowsOf(k) :
       PositiveCount(RowsOf(k)[v]) > options["influencesPerVertex"]

(* What a vertex owes to skinWeights and to skinIndices. *)
ExpectedWeights(row, ipv) ==
    LET positive == SelectSeq(row, LAMBDA w : w > 0)
    IN  positive \o [i \in 1..(ipv - Len(positive)) |-> 0]

ExpectedIndices(row, influences, ipv) ==
    LET at == SelectSeq([i \in DOMAIN row |-> i], LAMBDA i : row[i] > 0)
    IN  [k \in DOMAIN at |-> PositionOf(influences[at[k]], JointList)]
        \o [i \in 1..(ipv - Len(at)) |-> 0]

SkinsAreFixedWidth ==
    (pc \in {"writing", "done"} /\ options["bones"]) =>
       \A k \in DOMAIN meshes :
          LET ipv == options["influencesPerVertex"]
              rows == RowsOf(k)
          IN  /\ Len(meshes[k]["skinWeights"]) = ipv * Len(rows)
              /\ Len(meshes[k]["skinIndices"]) = ipv * Len(rows)
              /\ Len(rows) = Len(ExportedMeshes[k].points)
              /\ \A v \in DOMAIN rows :
                    /\ SubSeq(meshes[k]["skinWeights"], (v - 1) * ipv + 1, v * ipv)
                          = ExpectedWeights(rows[v], ipv)
                    /\ SubSeq(meshes[k]["skinIndices"], (v - 1) * ipv + 1, v * ipv)
                          = ExpectedIndices(rows[v], InfluencesOf(k), ipv)

NeverCompletesOverCapacity ==
    (pc \in {"writing", "done"} /\ options["bones"]) =>
       /\ Len(meshes) = Len(ExportedMeshes)
       /\ \A k \in DOMAIN ExportedMeshes : ~OverCapacity(k)

SkinErrorNamesMesh ==
    IsSkinCapacity(error) =>
       /\ pc = "error"
       /\ OverCapacity(meshIdx)
       /\ PositiveCount(RowsOf(meshIdx)[vtxIdx]) > options["influencesPerVertex"]
       /\ error.message[2] = options["influencesPerVertex"]
       /\ error.message[4] = ExportedMeshes[meshIdx].name

(* C4, as the specification states it: a completed export with bones    *)
(* holds exactly influencesPerVertex entries per vertex in skinIndices    *)
(* and in skinWeights, the positive weights first and then the padding;   *)
(* an export with a vertex of more positive weights never completes, and  *)
(* the error it raises is the one that names the mesh.                    *)
C4_OverCapacityRaisesNamingMesh ==
    /\ SkinsAreFixedWidth
    /\ NeverCompletesOverCapacity
    /\ SkinErrorNamesMesh
    /\ (pc = "error" /\ options["bones"]
        /\ "influencesPerVertex" \in DOMAIN options
        /\ \E k \in DOMAIN ExportedMeshes : OverCapacity(k))
          => IsSkinCapacity(error)

(* C4, amended: the same, but the error that ends an export with such a *)
(* vertex is the one naming the mesh unless a configuration error or the *)
(* error of a face that is neither a triangle nor a quad is raised       *)
(* first; the mesh named is then the first, in traversal order, with     *)
(* such a vertex.                                                        *)
C4_FixedWidthSkins ==
    /\ SkinsAreFixedWidth
    /\ NeverCompletesOverCapacity
    /\ SkinErrorNamesMesh
    /\ IsSkinCapacity(error) => \A k \in 1..(meshIdx - 1) : ~OverCapacity(k)
    /\ (pc = "error" /\ options["bones"]
        /\ "influencesPerVertex" \in DOMAIN options
        /\ \E k \in DOMAIN ExportedMeshes : OverCapacity(k))
          => \/ IsSkinCapacity(error)
             \/ error.type \in {"IndexError", "ValueError"}
             \/ /\ IsInvalidPolygon(error)
                /\ \A k \in 1..(meshIdx - 1) : ~OverCapacity(k)

(* An export with influencesPerVertex = 2 is done; one of its vertices *)
(* has no positive weight, another has one.                            *)
C4_Witness ==
    /\ pc = "done"
    /\ options["bones"]
    /\ options["influencesPerVertex"] = 2
    /\ \E k \in DOMAIN meshes :
          /\ \E v \in DOMAIN RowsOf(k) : PositiveCount(RowsOf(k)[v]) = 0
          /\ \E v \in DOMAIN RowsOf(k) : PositiveCount(RowsOf(k)[v]) = 1
          /\ Len(meshes[k]["skinIndices"]) = 2 * Len(RowsOf(k))

(* Python's range(start, end, step) for a positive step. *)
RECURSIVE PyRange(_, _, _)
PyRange(start, end, step) ==
    IF start >= end THEN <<>>
    ELSE <<start>> \o PyRange(start + step, end, step)

(* The morph targets of a document. *)
MorphTargets(document) ==
    IF "morphTargets" \in DOMAIN document THEN document["morphTargets"] ELSE <<>>

(* C5: with bakeAnimations (startFrame, endFrame, stepFrame) the export *)
(* moves the host to the frames start, start+step, ... below end, in     *)
(* that order, and the document holds one morph target frame_<N> for     *)
(* each, in the same order.                                              *)
C5_BakedFramesSampled ==
    (pc = "done" /\ options["bakeAnimations"]) =>
       LET frames == PyRange(options["startFrame"], options["endFrame"],
                             options["stepFrame"])
           targets == MorphTargets(Document)
       IN  /\ [i \in DOMAIN targets |-> targets[i].name]
                 = [i \in DOMAIN frames |-> <<"frame_", frames[i]>>]
           /\ ~options["skeletalAnim"] => frameLog = frames

(* The frames of the keys exported for the j-th joint: a key's time is  *)
(* its frame less the first frame of the playback range, over the rate.  *)
KeyFramesOf(j) ==
    LET keys == animations[1].hierarchy[j].keys
    IN  [i \in DOMAIN keys |-> keys[i].time[1] + scene.minTime]

(* C6: for every joint the frames the host is moved to, and the keys    *)
(* exported, are the joint's keyframe times and the first and the last   *)
(* frame of the playback range, strictly ascending; the first and the    *)
(* last frame are there once each.                                       *)
C6_KeyframesSortedWithRangeEnds ==
    (pc \in {"writing", "done"} /\ options["skeletalAnim"]) =>
       /\ Len(animations) = 1
       /\ Len(animations[1].hierarchy) = Len(scene.joints)
       /\ \A j \in DOMAIN scene.joints :
             LET frames == KeyFramesOf(j)
             IN  /\ \A i \in 1..(Len(frames) - 1) : frames[i] < frames[i + 1]
                 /\ Range(frames) = Range(scene.joints[j].keys)
                                    \cup {scene.minTime, scene.maxTime}
                 /\ Cardinality({i \in DOMAIN frames : frames[i] = scene.minTime}) = 1
                 /\ Cardinality({i \in DOMAIN frames : frames[i] = scene.maxTime}) = 1
       /\ frameLog = Flatten([j \in DOMAIN scene.joints |-> KeyFramesOf(j)])
       /\ frameLog # <<>> => curTime = frameLog[Len(frameLog)]

(* The keyframes of a joint are out of order and miss both ends of the *)
(* playback range; four keys were exported for it.                     *)
C6_Witness ==
    /\ pc = "done"
    /\ options["skeletalAnim"]
    /\ \E j \in DOMAIN scene.joints :
          LET keys == scene.joints[j].keys
          IN  /\ Len(keys) = 2
              /\ keys[1] > keys[2]
              /\ scene.minTime \notin Range(keys)
              /\ scene.maxTime \notin Range(keys)
              /\ Len(animations[1].hierarchy[j].keys) = 4

(* The parent index a joint is to have: -1 with no parent joint, and   *)
(* else the position of the parent in the list of joints.              *)
ParentPosition(joint) ==
    IF joint.parent \in Range(JointList)
    THEN PositionOf(joint.parent, JointList)
    ELSE -1

(* C9: each parent index exported for a joint, in the bones and in the *)
(* animation's hierarchy, is -1 for a joint with no parent and else the *)
(* position of its parent in the list of joints.                        *)
C9_ParentIndices ==
    pc = "done" =>
       /\ options["bones"] =>
             \A i \in DOMAIN scene.joints :
                bones[i].parent = ParentPosition(scene.joints[i])
       /\ options["skeletalAnim"] =>
             \A i \in DOMAIN scene.joints :
                animations[1].hierarchy[i].parent = ParentPosition(scene.joints[i])

(* What a new writer would emit for a face's material. *)
FreshMaterial(face) ==
    LET known == {i \in DOMAIN face.shaders : face.shaders[i] \in Range(scene.lambert)}
    IN  IF options["materials"] /\ known # {}
        THEN <<PositionOf(face.shaders[Min(known)], scene.lambert)>>
        ELSE <<>>

(* C8: every call on a writer writes the document a new writer would    *)
(* write for the call's scene and options; no table built in an earlier  *)
(* call decides a material index, a parent index or a skin index of a    *)
(* later one.  (The scene is the call's own until the file is written.) *)
C8_CallsShareNothing ==
    pc = "writing" =>
       /\ \A i \in DOMAIN faceLog :
             faceLog[i].material = FreshMaterial(LoggedFace(faceLog[i]))
       /\ options["bones"] =>
             /\ \A i \in DOMAIN scene.joints :
                   bones[i].parent = ParentPosition(scene.joints[i])
             /\ \A k \in DOMAIN meshes : \A v \in DOMAIN RowsOf(k) :
                   LET ipv == options["influencesPerVertex"]
                   IN  SubSeq(meshes[k]["skinIndices"], (v - 1) * ipv + 1, v * ipv)
                          = ExpectedIndices(RowsOf(k)[v], InfluencesOf(k), ipv)

====
